---- MODULE Spec2Model ----
(***************************************************************************)
(* Model of RdsSnapshotExportPipelineStack (lib/rds-snapshot-export-       *)
(* pipeline-stack.ts) and of its instantiation in bin/cdk.ts.              *)
(*                                                                         *)
(* The stack constructor is a straight-line program: one action per        *)
(* `new ...(this, id, ...)` statement, in source order, driven by pc.      *)
(* Strings the program only passes around are TLA+ strings; strings it     *)
(* transforms (dbName) are sequences of one-character strings, with a      *)
(* literal suffix appended as one chunk.  ARNs are unresolved references   *)
(* [of, attr, suffix] to the construct that owns them.                     *)
(***************************************************************************)
EXTENDS Integers, Sequences, FiniteSets, TLC

VARIABLES
    props,                          \* RdsSnapshotExportPipelineStackProps
    pc,                             \* statement of the constructor to run next
    children,                       \* construct ids registered in scope `this`
    bucket,
    snapshotExportTaskRole,
    lambdaExecutionRole,
    snapshotExportGlueCrawlerRole,
    snapshotExportEncryptionKey,
    snapshotEventTopic,
    subscriptions,                  \* CfnEventSubscription resources, in creation order
    lambdaFunction,
    crawler

vars == <<props, pc, children, bucket, snapshotExportTaskRole, lambdaExecutionRole,
          snapshotExportGlueCrawlerRole, snapshotExportEncryptionKey,
          snapshotEventTopic, subscriptions, lambdaFunction, crawler>>

----------------------------------------------------------------------------
(* Bounds of the model *)

MaxEvents == 2          \* longest rdsEvents array enumerated besides bin/cdk.ts's

MaxNameLen == 3         \* longest dbName enumerated besides bin/cdk.ts's

----------------------------------------------------------------------------
(* enum RdsEventId *)

DB_AUTOMATED_AURORA_SNAPSHOT_CREATED == "RDS-EVENT-0169"

DB_AUTOMATED_SNAPSHOT_CREATED == "RDS-EVENT-0091"

DB_MANUAL_SNAPSHOT_CREATED == "RDS-EVENT-0042"

DB_BACKUP_SNAPSHOT_FINISHED_COPY == "RDS-EVENT-0197"

RdsEventId ==
    { DB_AUTOMATED_AURORA_SNAPSHOT_CREATED, DB_AUTOMATED_SNAPSHOT_CREATED,
      DB_MANUAL_SNAPSHOT_CREATED, DB_BACKUP_SNAPSHOT_FINISHED_COPY }

(* enum RdsSnapshotType *)

DB_AUTOMATED_SNAPSHOT == "AUTOMATED"

DB_BACKUP_SNAPSHOT == "BACKUP"

DB_MANUAL_SNAPSHOT == "MANUAL"

RdsSnapshotType == { DB_AUTOMATED_SNAPSHOT, DB_BACKUP_SNAPSHOT, DB_MANUAL_SNAPSHOT }

(* interface RdsSnapshot: any event id with any snapshot type type-checks *)
RdsSnapshot == [rdsEventId : RdsEventId, rdsSnapshotType : RdsSnapshotType]

----------------------------------------------------------------------------
(* Inputs *)

SeqsUpTo(S, n) == UNION { [1..k -> S] : k \in 0..n }

(* rdsEvents of the stack instantiation in bin/cdk.ts *)
CdkRdsEvents ==
    << [rdsEventId |-> DB_AUTOMATED_SNAPSHOT_CREATED, rdsSnapshotType |-> DB_AUTOMATED_SNAPSHOT],
       [rdsEventId |-> DB_MANUAL_SNAPSHOT_CREATED, rdsSnapshotType |-> DB_MANUAL_SNAPSHOT],
       [rdsEventId |-> DB_BACKUP_SNAPSHOT_FINISHED_COPY, rdsSnapshotType |-> DB_BACKUP_SNAPSHOT] >>

(* dbName of bin/cdk.ts, 'db-mysql-main', one character per element *)
CdkDbName == << "d", "b", "-", "m", "y", "s", "q", "l", "-", "m", "a", "i", "n" >>

(* s3BucketName of bin/cdk.ts *)
CdkS3BucketName == "db-mysql-main-2023-06-07"

(* characters names are enumerated over: a lower-case letter, an upper-case
   letter, a digit, the underscore, and two characters outside [a-zA-Z0-9_] *)
NameChars == { "d", "B", "9", "_", "-", "." }

RuleSets == SeqsUpTo(RdsSnapshot, MaxEvents) \cup { CdkRdsEvents }

DbNames == SeqsUpTo(NameChars, MaxNameLen) \cup { CdkDbName }

----------------------------------------------------------------------------
(* Helpers for values of the CDK library *)

(* An attribute of a construct that resolves at deploy time (roleArn, ...),
   optionally followed by a literal, as in `${bucket.bucketArn}/*` *)
Ref(of, attr, suffix) == [of |-> of, attr |-> attr, suffix |-> suffix]

Star == Ref("*", "*", "")

Undefined == [undefined |-> TRUE]

(* props.rdsEvents.find(rdsEvent => rdsEvent.rdsEventId == eventId): the first
   element with that event id, if any (here << >> stands for undefined) *)
Find(arr, eventId) ==
    IF \E i \in 1..Len(arr) : arr[i].rdsEventId = eventId
    THEN << arr[CHOOSE i \in 1..Len(arr) :
                   /\ arr[i].rdsEventId = eventId
                   /\ \A j \in 1..(i-1) : arr[j].rdsEventId # eventId] >>
    ELSE << >>

(* JavaScript truthiness of find's result: an object is truthy, undefined is not *)
Truthy(found) == found # << >>

(* Array.prototype.join() of an array of strings: the elements separated by "," *)
RECURSIVE Join(_)
Join(arr) ==
    IF Len(arr) = 0 THEN << >>
    ELSE IF Len(arr) = 1 THEN << arr[1] >>
    ELSE << arr[1], "," >> \o Join(Tail(arr))

(* new Array(x) with x an array: the one-element array [x] *)
NewArray(x) == << x >>

(* join() of an array whose elements are arrays of strings: each element is
   converted to a string by its own join(), and the results are separated by "," *)
RECURSIVE JoinArrays(_)
JoinArrays(outer) ==
    IF Len(outer) = 0 THEN << >>
    ELSE IF Len(outer) = 1 THEN Join(outer[1])
    ELSE Join(outer[1]) \o << "," >> \o JoinArrays(Tail(outer))

(* [a-zA-Z0-9_], the characters the crawler's regular expression leaves alone *)
WordChars ==
    { "a", "b", "c", "d", "e", "f", "g", "h", "i", "j", "k", "l", "m",
      "n", "o", "p", "q", "r", "s", "t", "u", "v", "w", "x", "y", "z",
      "A", "B", "C", "D", "E", "F", "G", "H", "I", "J", "K", "L", "M",
      "N", "O", "P", "Q", "R", "S", "T", "U", "V", "W", "X", "Y", "Z",
      "0", "1", "2", "3", "4", "5", "6", "7", "8", "9", "_" }

(* Variant: the regular expression without flag g replaces the first match only *)
Normalize_FirstOnly(name) ==
    [i \in 1..Len(name) |->
        IF name[i] \notin WordChars /\ \A j \in 1..(i-1) : name[j] \in WordChars
        THEN "_" ELSE name[i]]

(* name.replace(/[^a-zA-Z0-9_]/g, "_"): every match is replaced (flag g) *)
Normalize(name) ==
    [i \in 1..Len(name) |-> IF name[i] \in WordChars THEN name[i] ELSE "_"]

----------------------------------------------------------------------------
(* Policy documents.  A statement is
   [Principal, Action, Resource, Condition, Effect]; an identity policy has no
   Principal and a statement without "Condition" has the empty set. *)

Statement(principal, action, resource, condition) ==
    [Principal |-> principal, Action |-> action, Resource |-> resource,
     Condition |-> condition, Effect |-> "Allow"]

AccountRootPrincipalArn == Ref("AccountRootPrincipal", "arn", "")

SnapshotExportTaskPolicy(bucketArn) ==
    << Statement({},
                 { "s3:PutObject*", "s3:ListBucket", "s3:GetObject*",
                   "s3:DeleteObject*", "s3:GetBucketLocation" },
                 { bucketArn, [bucketArn EXCEPT !.suffix = "/*"] },
                 {}) >>

(* Variant: role delegation on every resource *)
SnapshotExporterLambdaPolicy_AnyRole(taskRoleArn) ==
    << Statement({}, { "rds:StartExportTask", "rds:DescribeDBSnapshots" }, { Star }, {}),
       Statement({}, { "iam:PassRole" }, { Star }, {}) >>

SnapshotExporterLambdaPolicy(taskRoleArn) ==
    << Statement({}, { "rds:StartExportTask", "rds:DescribeDBSnapshots" }, { Star }, {}),
       Statement({}, { "iam:PassRole" }, { taskRoleArn }, {}) >>

SnapshotExportsGlueCrawlerPolicy(bucketArn) ==
    << Statement({}, { "s3:GetObject", "s3:PutObject" },
                 { [bucketArn EXCEPT !.suffix = "/*"] }, {}) >>

(* Variant: the grant condition attached to the account root statement *)
KeyPolicy_RootConditioned(lambdaRoleArn, crawlerRoleArn) ==
    << Statement({ AccountRootPrincipalArn }, { "kms:*" }, { Star },
                 { [operator |-> "Bool", key |-> "kms:GrantIsForAWSResource", value |-> TRUE] }),
       Statement({ lambdaRoleArn, crawlerRoleArn },
                 { "kms:Encrypt", "kms:Decrypt", "kms:ReEncrypt*",
                   "kms:GenerateDataKey*", "kms:DescribeKey" },
                 { Star }, {}),
       Statement({ lambdaRoleArn },
                 { "kms:CreateGrant", "kms:ListGrants", "kms:RevokeGrant" },
                 { Star }, {}) >>

KeyPolicy(lambdaRoleArn, crawlerRoleArn) ==
    << Statement({ AccountRootPrincipalArn }, { "kms:*" }, { Star }, {}),
       Statement({ lambdaRoleArn, crawlerRoleArn },
                 { "kms:Encrypt", "kms:Decrypt", "kms:ReEncrypt*",
                   "kms:GenerateDataKey*", "kms:DescribeKey" },
                 { Star }, {}),
       Statement({ lambdaRoleArn },
                 { "kms:CreateGrant", "kms:ListGrants", "kms:RevokeGrant" },
                 { Star },
                 { [operator |-> "Bool", key |-> "kms:GrantIsForAWSResource", value |-> TRUE] }) >>

----------------------------------------------------------------------------
(* Event subscriptions *)

CfnEventSubscription(id, topicArn, eventCategories, sourceType) ==
    [id |-> id, snsTopicArn |-> topicArn, enabled |-> TRUE,
     eventCategories |-> eventCategories, sourceType |-> sourceType]

(* Variant: only the first element of rdsEvents is inspected *)
RdsSnapshotEventNotification_FirstOnly(rdsEvents, topicArn) ==
    IF Len(rdsEvents) > 0 /\ rdsEvents[1].rdsEventId = DB_AUTOMATED_AURORA_SNAPSHOT_CREATED
    THEN << CfnEventSubscription("RdsSnapshotEventNotification", topicArn,
                                 << "backup" >>, "db-cluster-snapshot") >>
    ELSE << CfnEventSubscription("RdsSnapshotEventNotification", topicArn,
                                 << "creation" >>, "db-snapshot") >>

(* Variant: no subscription unless rdsEvents holds a creation event *)
RdsSnapshotEventNotification_NoDefault(rdsEvents, topicArn) ==
    IF \E i \in 1..Len(rdsEvents) :
          rdsEvents[i].rdsEventId = DB_AUTOMATED_AURORA_SNAPSHOT_CREATED
    THEN << CfnEventSubscription("RdsSnapshotEventNotification", topicArn,
                                 << "backup" >>, "db-cluster-snapshot") >>
    ELSE IF \E i \in 1..Len(rdsEvents) :
               rdsEvents[i].rdsEventId \in { DB_AUTOMATED_SNAPSHOT_CREATED,
                                             DB_MANUAL_SNAPSHOT_CREATED }
    THEN << CfnEventSubscription("RdsSnapshotEventNotification", topicArn,
                                 << "creation" >>, "db-snapshot") >>
    ELSE << >>

(* The first conditional expression: both branches construct a subscription *)
RdsSnapshotEventNotification(rdsEvents, topicArn) ==
    IF Truthy(Find(rdsEvents, DB_AUTOMATED_AURORA_SNAPSHOT_CREATED))
    THEN << CfnEventSubscription("RdsSnapshotEventNotification", topicArn,
                                 << "backup" >>, "db-cluster-snapshot") >>
    ELSE << CfnEventSubscription("RdsSnapshotEventNotification", topicArn,
                                 << "creation" >>, "db-snapshot") >>

(* Variant: the copy subscription filed under the creation category *)
RdsBackupCopyEventNotification_Creation(rdsEvents, topicArn) ==
    IF Truthy(Find(rdsEvents, DB_BACKUP_SNAPSHOT_FINISHED_COPY))
    THEN << CfnEventSubscription("RdsBackupCopyEventNotification", topicArn,
                                 << "creation" >>, "db-snapshot") >>
    ELSE << >>

(* Variant: the copy subscription keyed on the snapshot type *)
RdsBackupCopyEventNotification_BySnapshotType(rdsEvents, topicArn) ==
    IF \E i \in 1..Len(rdsEvents) : rdsEvents[i].rdsSnapshotType = DB_BACKUP_SNAPSHOT
    THEN << CfnEventSubscription("RdsBackupCopyEventNotification", topicArn,
                                 << "notification" >>, "db-snapshot") >>
    ELSE << >>

(* The second conditional expression: the else branch is the value `true` *)
RdsBackupCopyEventNotification(rdsEvents, topicArn) ==
    IF Truthy(Find(rdsEvents, DB_BACKUP_SNAPSHOT_FINISHED_COPY))
    THEN << CfnEventSubscription("RdsBackupCopyEventNotification", topicArn,
                                 << "notification" >>, "db-snapshot") >>
    ELSE << >>

----------------------------------------------------------------------------
(* Environment of the Lambda function *)

(* props.rdsEvents.map(e => { return e.rdsEventId }) *)
EventIds(rdsEvents) == [i \in 1..Len(rdsEvents) |-> rdsEvents[i].rdsEventId]

(* props.rdsEvents.map(e => { return e.rdsSnapshotType }) *)
SnapshotTypes(rdsEvents) == [i \in 1..Len(rdsEvents) |-> rdsEvents[i].rdsSnapshotType]

(* Variant: the export mode taken from the snapshot type *)
DbSnapshotTypeOf_BySnapshotType(e) ==
    IF e.rdsSnapshotType = DB_AUTOMATED_SNAPSHOT THEN "cluster-snapshot" ELSE "snapshot"

DbSnapshotTypeOf(e) ==
    IF e.rdsEventId = DB_AUTOMATED_AURORA_SNAPSHOT_CREATED THEN "cluster-snapshot" ELSE "snapshot"

(* props.rdsEvents.map(e => { return ... ? "cluster-snapshot" : "snapshot" }) *)
DbSnapshotTypes(rdsEvents) == [i \in 1..Len(rdsEvents) |-> DbSnapshotTypeOf(rdsEvents[i])]

(* Variant: one export mode for the whole deployment, as for the subscription *)
Environment_SingleMode(p, bucketName, taskRoleArn, keyArn) ==
    [ RDS_EVENT_IDS        |-> JoinArrays(NewArray(EventIds(p.rdsEvents))),
      RDS_SNAPSHOT_TYPES   |-> JoinArrays(NewArray(SnapshotTypes(p.rdsEvents))),
      DB_NAME              |-> p.dbName,
      LOG_LEVEL            |-> "INFO",
      SNAPSHOT_BUCKET_NAME |-> bucketName,
      SNAPSHOT_TASK_ROLE   |-> taskRoleArn,
      SNAPSHOT_TASK_KEY    |-> keyArn,
      DB_SNAPSHOT_TYPES    |-> JoinArrays(NewArray(DbSnapshotTypes(
                                  Find(p.rdsEvents, DB_AUTOMATED_AURORA_SNAPSHOT_CREATED)))) ]

Environment(p, bucketName, taskRoleArn, keyArn) ==
    [ RDS_EVENT_IDS        |-> JoinArrays(NewArray(EventIds(p.rdsEvents))),
      RDS_SNAPSHOT_TYPES   |-> JoinArrays(NewArray(SnapshotTypes(p.rdsEvents))),
      DB_NAME              |-> p.dbName,
      LOG_LEVEL            |-> "INFO",
      SNAPSHOT_BUCKET_NAME |-> bucketName,
      SNAPSHOT_TASK_ROLE   |-> taskRoleArn,
      SNAPSHOT_TASK_KEY    |-> keyArn,
      DB_SNAPSHOT_TYPES    |-> JoinArrays(NewArray(DbSnapshotTypes(p.rdsEvents))) ]

----------------------------------------------------------------------------
(* The constructor, statement by statement *)

(* Inputs enumerated with every rule set: the names of bin/cdk.ts and a name
   that is already a valid catalog name *)
SampleDbNames == { CdkDbName, << "d", "B", "_", "9" >> }

(* State on entry to the constructor body, after super(scope, id, props) *)
InitWith(propsSet) ==
    /\ props \in propsSet
    /\ pc = "SnapshotExportBucket"
    /\ children = {}
    /\ bucket = Undefined
    /\ snapshotExportTaskRole = Undefined
    /\ lambdaExecutionRole = Undefined
    /\ snapshotExportGlueCrawlerRole = Undefined
    /\ snapshotExportEncryptionKey = Undefined
    /\ snapshotEventTopic = Undefined
    /\ subscriptions = << >>
    /\ lambdaFunction = Undefined
    /\ crawler = Undefined

Init ==
    InitWith([dbName : SampleDbNames, s3BucketName : { CdkS3BucketName }, rdsEvents : RuleSets])

(* The same program on every bounded database name *)
InitNames ==
    InitWith([dbName : DbNames, s3BucketName : { CdkS3BucketName },
              rdsEvents : { << >>, CdkRdsEvents }])

(* `new C(this, id, ...)` registers id in the scope and throws when the scope
   already has a child of that name *)
CanAdd(ids) == ids \cap children = {}

Added(ids, next) ==
    /\ pc' = IF CanAdd(ids) THEN next ELSE "error"
    /\ children' = IF CanAdd(ids) THEN children \cup ids ELSE children

CreateBucket ==
    /\ pc = "SnapshotExportBucket"
    /\ Added({ "SnapshotExportBucket" }, "SnapshotExportTaskRole")
    /\ bucket' = IF CanAdd({ "SnapshotExportBucket" })
                 THEN [ id |-> "SnapshotExportBucket",
                        bucketName |-> props.s3BucketName,
                        blockPublicAccess |-> "BLOCK_ALL",
                        bucketArn |-> Ref("SnapshotExportBucket", "bucketArn", "") ]
                 ELSE bucket
    /\ UNCHANGED << props, snapshotExportTaskRole, lambdaExecutionRole,
                    snapshotExportGlueCrawlerRole, snapshotExportEncryptionKey,
                    snapshotEventTopic, subscriptions, lambdaFunction, crawler >>

CreateSnapshotExportTaskRole ==
    /\ pc = "SnapshotExportTaskRole"
    /\ Added({ "SnapshotExportTaskRole" }, "RdsSnapshotExporterLambdaExecutionRole")
    /\ snapshotExportTaskRole' =
         IF CanAdd({ "SnapshotExportTaskRole" })
         THEN [ id |-> "SnapshotExportTaskRole",
                assumedBy |-> "export.rds.amazonaws.com",
                description |-> << "Role used by RDS to perform snapshot exports to S3" >>,
                inlinePolicies |-> [ name |-> "SnapshotExportTaskPolicy",
                                     document |-> SnapshotExportTaskPolicy(bucket.bucketArn) ],
                managedPolicies |-> {},
                roleArn |-> Ref("SnapshotExportTaskRole", "roleArn", "") ]
         ELSE snapshotExportTaskRole
    /\ UNCHANGED << props, bucket, lambdaExecutionRole, snapshotExportGlueCrawlerRole,
                    snapshotExportEncryptionKey, snapshotEventTopic, subscriptions,
                    lambdaFunction, crawler >>

CreateLambdaExecutionRole ==
    /\ pc = "RdsSnapshotExporterLambdaExecutionRole"
    /\ Added({ "RdsSnapshotExporterLambdaExecutionRole" }, "SnapshotExportsGlueCrawlerRole")
    /\ lambdaExecutionRole' =
         IF CanAdd({ "RdsSnapshotExporterLambdaExecutionRole" })
         THEN [ id |-> "RdsSnapshotExporterLambdaExecutionRole",
                assumedBy |-> "lambda.amazonaws.com",
                description |-> << "RdsSnapshotExportToS3 Lambda execution role for the \"" >>
                                \o props.dbName \o << "\" database." >>,
                inlinePolicies |-> [ name |-> "SnapshotExporterLambdaPolicy",
                                     document |-> SnapshotExporterLambdaPolicy(
                                                      snapshotExportTaskRole.roleArn) ],
                managedPolicies |-> { "service-role/AWSLambdaBasicExecutionRole" },
                roleArn |-> Ref("RdsSnapshotExporterLambdaExecutionRole", "roleArn", "") ]
         ELSE lambdaExecutionRole
    /\ UNCHANGED << props, bucket, snapshotExportTaskRole, snapshotExportGlueCrawlerRole,
                    snapshotExportEncryptionKey, snapshotEventTopic, subscriptions,
                    lambdaFunction, crawler >>

CreateGlueCrawlerRole ==
    /\ pc = "SnapshotExportsGlueCrawlerRole"
    /\ Added({ "SnapshotExportsGlueCrawlerRole" }, "SnapshotExportEncryptionKey")
    /\ snapshotExportGlueCrawlerRole' =
         IF CanAdd({ "SnapshotExportsGlueCrawlerRole" })
         THEN [ id |-> "SnapshotExportsGlueCrawlerRole",
                assumedBy |-> "glue.amazonaws.com",
                description |-> << "Role used by RDS to perform snapshot exports to S3" >>,
                inlinePolicies |-> [ name |-> "SnapshotExportsGlueCrawlerPolicy",
                                     document |-> SnapshotExportsGlueCrawlerPolicy(bucket.bucketArn) ],
                managedPolicies |-> { "service-role/AWSGlueServiceRole" },
                roleArn |-> Ref("SnapshotExportsGlueCrawlerRole", "roleArn", "") ]
         ELSE snapshotExportGlueCrawlerRole
    /\ UNCHANGED << props, bucket, snapshotExportTaskRole, lambdaExecutionRole,
                    snapshotExportEncryptionKey, snapshotEventTopic, subscriptions,
                    lambdaFunction, crawler >>

CreateEncryptionKey ==
    /\ pc = "SnapshotExportEncryptionKey"
    /\ Added({ "SnapshotExportEncryptionKey" }, "SnapshotEventTopic")
    /\ snapshotExportEncryptionKey' =
         IF CanAdd({ "SnapshotExportEncryptionKey" })
         THEN [ id |-> "SnapshotExportEncryptionKey",
                alias |-> props.dbName \o << "-snapshot-exports" >>,
                policy |-> KeyPolicy(lambdaExecutionRole.roleArn,
                                     snapshotExportGlueCrawlerRole.roleArn),
                keyArn |-> Ref("SnapshotExportEncryptionKey", "keyArn", "") ]
         ELSE snapshotExportEncryptionKey
    /\ UNCHANGED << props, bucket, snapshotExportTaskRole, lambdaExecutionRole,
                    snapshotExportGlueCrawlerRole, snapshotEventTopic, subscriptions,
                    lambdaFunction, crawler >>

(* Variant: the topic statement moved below the subscription statements, so
   that it has not run when they do *)
CreateSnapshotEventTopic_Deferred ==
    /\ pc = "SnapshotEventTopic"
    /\ pc' = "RdsSnapshotEventNotification"
    /\ UNCHANGED << props, children, bucket, snapshotExportTaskRole, lambdaExecutionRole,
                    snapshotExportGlueCrawlerRole, snapshotExportEncryptionKey,
                    snapshotEventTopic, subscriptions, lambdaFunction, crawler >>

CreateSnapshotEventTopic ==
    /\ pc = "SnapshotEventTopic"
    /\ Added({ "SnapshotEventTopic" }, "RdsSnapshotEventNotification")
    /\ snapshotEventTopic' =
         IF CanAdd({ "SnapshotEventTopic" })
         THEN [ id |-> "SnapshotEventTopic",
                displayName |-> "rds-snapshot-creation",
                topicArn |-> Ref("SnapshotEventTopic", "topicArn", "") ]
         ELSE snapshotEventTopic
    /\ UNCHANGED << props, bucket, snapshotExportTaskRole, lambdaExecutionRole,
                    snapshotExportGlueCrawlerRole, snapshotExportEncryptionKey,
                    subscriptions, lambdaFunction, crawler >>

IdsOf(subs) == { subs[i].id : i \in 1..Len(subs) }

CreateRdsSnapshotEventNotification ==
    /\ pc = "RdsSnapshotEventNotification"
    /\ LET new == RdsSnapshotEventNotification(props.rdsEvents, snapshotEventTopic.topicArn)
       IN  /\ Added(IdsOf(new), "RdsBackupCopyEventNotification")
           /\ subscriptions' = IF CanAdd(IdsOf(new)) THEN subscriptions \o new
                               ELSE subscriptions
    /\ UNCHANGED << props, bucket, snapshotExportTaskRole, lambdaExecutionRole,
                    snapshotExportGlueCrawlerRole, snapshotExportEncryptionKey,
                    snapshotEventTopic, lambdaFunction, crawler >>

CreateRdsBackupCopyEventNotification ==
    /\ pc = "RdsBackupCopyEventNotification"
    /\ LET new == RdsBackupCopyEventNotification(props.rdsEvents, snapshotEventTopic.topicArn)
       IN  /\ Added(IdsOf(new), "LambdaFunction")
           /\ subscriptions' = IF CanAdd(IdsOf(new)) THEN subscriptions \o new
                               ELSE subscriptions
    /\ UNCHANGED << props, bucket, snapshotExportTaskRole, lambdaExecutionRole,
                    snapshotExportGlueCrawlerRole, snapshotExportEncryptionKey,
                    snapshotEventTopic, lambdaFunction, crawler >>

CreateLambdaFunction ==
    /\ pc = "LambdaFunction"
    /\ Added({ "LambdaFunction" }, "SnapshotExportCrawler")
    /\ lambdaFunction' =
         IF CanAdd({ "LambdaFunction" })
         THEN [ id |-> "LambdaFunction",
                functionName |-> props.dbName \o << "-rds-snapshot-exporter" >>,
                runtime |-> "PYTHON_3_8",
                handler |-> "main.handler",
                code |-> "/../assets/exporter/",
                environment |-> Environment(props, bucket.bucketName,
                                            snapshotExportTaskRole.roleArn,
                                            snapshotExportEncryptionKey.keyArn),
                role |-> lambdaExecutionRole.roleArn,
                timeout |-> 30,
                events |-> << [ source |-> "SnsEventSource",
                                topic |-> snapshotEventTopic.topicArn ] >> ]
         ELSE lambdaFunction
    /\ UNCHANGED << props, bucket, snapshotExportTaskRole, lambdaExecutionRole,
                    snapshotExportGlueCrawlerRole, snapshotExportEncryptionKey,
                    snapshotEventTopic, subscriptions, crawler >>

CreateCrawler ==
    /\ pc = "SnapshotExportCrawler"
    /\ Added({ "SnapshotExportCrawler" }, "done")
    /\ crawler' =
         IF CanAdd({ "SnapshotExportCrawler" })
         THEN [ id |-> "SnapshotExportCrawler",
                name |-> props.dbName \o << "-rds-snapshot-crawler" >>,
                role |-> snapshotExportGlueCrawlerRole.roleArn,
                targets |-> << [ path |-> bucket.bucketName ] >>,
                databaseName |-> Normalize(props.dbName),
                schemaChangePolicy |-> [ deleteBehavior |-> "DELETE_FROM_DATABASE" ] ]
         ELSE crawler
    /\ UNCHANGED << props, bucket, snapshotExportTaskRole, lambdaExecutionRole,
                    snapshotExportGlueCrawlerRole, snapshotExportEncryptionKey,
                    snapshotEventTopic, subscriptions, lambdaFunction >>

Next ==
    \/ CreateBucket
    \/ CreateSnapshotExportTaskRole
    \/ CreateLambdaExecutionRole
    \/ CreateGlueCrawlerRole
    \/ CreateEncryptionKey
    \/ CreateSnapshotEventTopic
    \/ CreateRdsSnapshotEventNotification
    \/ CreateRdsBackupCopyEventNotification
    \/ CreateLambdaFunction
    \/ CreateCrawler

Spec == Init /\ [][Next]_vars

SpecNames == InitNames /\ [][Next]_vars

----------------------------------------------------------------------------
(* Vocabulary of the properties *)

(* Both subscription statements of the constructor have run *)
SubscriptionsResolved == pc \in { "LambdaFunction", "SnapshotExportCrawler", "done" }

ContainsEvent(eventId) ==
    \E i \in 1..Len(props.rdsEvents) : props.rdsEvents[i].rdsEventId = eventId

HasSubscription(sourceType, category) ==
    \E i \in 1..Len(subscriptions) :
        /\ subscriptions[i].sourceType = sourceType
        /\ subscriptions[i].eventCategories = << category >>

(* Non-empty, and every condition is a non-cluster automated or manual creation *)
OnlyPlainCreationEvents ==
    /\ Len(props.rdsEvents) > 0
    /\ \A i \in 1..Len(props.rdsEvents) :
          props.rdsEvents[i].rdsEventId \in
              { DB_AUTOMATED_SNAPSHOT_CREATED, DB_MANUAL_SNAPSHOT_CREATED }

(* No condition carries a creation or copy event id *)
NoRecognizedCondition ==
    \A i \in 1..Len(props.rdsEvents) : props.rdsEvents[i].rdsEventId \notin RdsEventId

IsNotificationSubscription(s) == s.eventCategories = << "notification" >>

IsCreationClassSubscription(s) == ~IsNotificationSubscription(s)

(* The list a comma-joined string encodes: the empty string encodes the empty
   list, any other string one field per separator plus one *)
RECURSIVE SplitNonEmpty(_)
SplitNonEmpty(str) ==
    IF str = << >> THEN << << >> >>
    ELSE IF Head(str) = "," THEN << << >> >> \o SplitNonEmpty(Tail(str))
    ELSE LET rest == SplitNonEmpty(Tail(str))
         IN  << << Head(str) >> \o rest[1] >> \o Tail(rest)

Split(str) == IF str = << >> THEN << >> ELSE SplitNonEmpty(str)

(* Pairings the comments of RdsEventId and RdsSnapshotType describe *)
CompatibleTypes(eventId) ==
    IF eventId = DB_AUTOMATED_AURORA_SNAPSHOT_CREATED THEN { DB_AUTOMATED_SNAPSHOT }
    ELSE IF eventId = DB_AUTOMATED_SNAPSHOT_CREATED THEN { DB_AUTOMATED_SNAPSHOT }
    ELSE IF eventId = DB_MANUAL_SNAPSHOT_CREATED THEN { DB_MANUAL_SNAPSHOT, DB_BACKUP_SNAPSHOT }
    ELSE { DB_BACKUP_SNAPSHOT }

HasIncompatiblePairing ==
    \E i \in 1..Len(props.rdsEvents) :
        props.rdsEvents[i].rdsSnapshotType \notin CompatibleTypes(props.rdsEvents[i].rdsEventId)

----------------------------------------------------------------------------
(* C1: once both subscription statements have run, a rule set containing
   RDS-EVENT-0169 has a db-cluster-snapshot/backup subscription and no
   db-snapshot/creation subscription; a non-empty rule set of only
   RDS-EVENT-0091 and RDS-EVENT-0042 conditions has exactly one subscription,
   db-snapshot/creation. *)
C1_CreationClassSelection ==
    SubscriptionsResolved =>
        /\ ContainsEvent(DB_AUTOMATED_AURORA_SNAPSHOT_CREATED) =>
              /\ HasSubscription("db-cluster-snapshot", "backup")
              /\ ~HasSubscription("db-snapshot", "creation")
        /\ OnlyPlainCreationEvents =>
              /\ Len(subscriptions) = 1
              /\ subscriptions[1].sourceType = "db-snapshot"
              /\ subscriptions[1].eventCategories = << "creation" >>

C1_Witness ==
    /\ SubscriptionsResolved
    /\ Len(props.rdsEvents) = 2
    /\ props.rdsEvents[1].rdsEventId = DB_AUTOMATED_SNAPSHOT_CREATED
    /\ props.rdsEvents[2].rdsEventId = DB_AUTOMATED_AURORA_SNAPSHOT_CREATED
    /\ HasSubscription("db-cluster-snapshot", "backup")

(* C2 as stated: a rule set with no creation or copy condition ends with zero
   subscriptions and without error. *)
C2_NoConditionNoSubscription ==
    (SubscriptionsResolved /\ NoRecognizedCondition) =>
        (Len(subscriptions) = 0 /\ pc # "error")

(* C2 as amended: a rule set with no creation or copy condition (the empty
   rule set) ends with exactly one subscription, db-snapshot/creation, made by
   the else branch of the first conditional, and without error. *)
C2_NoConditionDefaultSubscription ==
    /\ pc # "error"
    /\ (SubscriptionsResolved /\ NoRecognizedCondition) =>
          /\ Len(subscriptions) = 1
          /\ subscriptions[1].id = "RdsSnapshotEventNotification"
          /\ subscriptions[1].sourceType = "db-snapshot"
          /\ subscriptions[1].eventCategories = << "creation" >>

C2_Witness ==
    /\ pc = "done"
    /\ props.rdsEvents = << >>
    /\ Len(subscriptions) = 1

(* C3 as stated: no two subscriptions have the same sourceType. *)
C3_DistinctSourceTypes ==
    \A i, j \in 1..Len(subscriptions) :
        i # j => subscriptions[i].sourceType # subscriptions[j].sourceType

(* C3 as amended: no two subscriptions have the same construct id or the same
   (sourceType, eventCategories) pair; at most one has sourceType
   db-cluster-snapshot and at most two have sourceType db-snapshot. *)
C3_DistinctSourceTypeAndCategory ==
    /\ \A i, j \in 1..Len(subscriptions) :
          i # j =>
             /\ subscriptions[i].id # subscriptions[j].id
             /\ << subscriptions[i].sourceType, subscriptions[i].eventCategories >>
                   # << subscriptions[j].sourceType, subscriptions[j].eventCategories >>
    /\ Cardinality({ i \in 1..Len(subscriptions) :
                        subscriptions[i].sourceType = "db-cluster-snapshot" }) <= 1
    /\ Cardinality({ i \in 1..Len(subscriptions) :
                        subscriptions[i].sourceType = "db-snapshot" }) <= 2

C3_Witness ==
    /\ SubscriptionsResolved
    /\ Len(subscriptions) = 2
    /\ subscriptions[1].sourceType = "db-snapshot"
    /\ subscriptions[2].sourceType = "db-snapshot"

(* C4: once both subscription statements have run, a db-snapshot/notification
   subscription exists exactly when the rule set contains RDS-EVENT-0197, there
   is at most one, and beside it there is exactly one creation-class
   subscription, whose source type depends on RDS-EVENT-0169 alone. *)
C4_BackupCopySubscription ==
    SubscriptionsResolved =>
        LET copies   == SelectSeq(subscriptions, IsNotificationSubscription)
            creation == SelectSeq(subscriptions, IsCreationClassSubscription)
        IN  /\ HasSubscription("db-snapshot", "notification")
                  <=> ContainsEvent(DB_BACKUP_SNAPSHOT_FINISHED_COPY)
            /\ Len(copies) = IF ContainsEvent(DB_BACKUP_SNAPSHOT_FINISHED_COPY) THEN 1 ELSE 0
            /\ \A i \in 1..Len(copies) : copies[i].sourceType = "db-snapshot"
            /\ Len(creation) = 1
            /\ creation[1].sourceType =
                  IF ContainsEvent(DB_AUTOMATED_AURORA_SNAPSHOT_CREATED)
                  THEN "db-cluster-snapshot" ELSE "db-snapshot"

C4_Witness ==
    /\ SubscriptionsResolved
    /\ ContainsEvent(DB_BACKUP_SNAPSHOT_FINISHED_COPY)
    /\ ContainsEvent(DB_AUTOMATED_AURORA_SNAPSHOT_CREATED)
    /\ HasSubscription("db-snapshot", "notification")
    /\ HasSubscription("db-cluster-snapshot", "backup")

(* C5 as stated: a rule set with an incompatible event id / snapshot type
   pairing is rejected before any construct is made, and never reaches the
   environment of the Lambda function. *)
C5_IncompatiblePairingRejected ==
    HasIncompatiblePairing => (children = {} /\ lambdaFunction = Undefined)

(* C6: the three comma-joined lists of the Lambda environment each encode as
   many entries as rdsEvents has conditions; entry i of RDS_EVENT_IDS and of
   RDS_SNAPSHOT_TYPES is the event id and the snapshot type of condition i, and
   entry i of DB_SNAPSHOT_TYPES is one export mode fixed by condition i. *)
C6_EnvironmentListsAligned ==
    lambdaFunction # Undefined =>
        LET env   == lambdaFunction.environment
            n     == Len(props.rdsEvents)
            ids   == Split(env.RDS_EVENT_IDS)
            types == Split(env.RDS_SNAPSHOT_TYPES)
            modes == Split(env.DB_SNAPSHOT_TYPES)
        IN  /\ Len(ids) = n /\ Len(types) = n /\ Len(modes) = n
            /\ \A i \in 1..n :
                  /\ ids[i] = << props.rdsEvents[i].rdsEventId >>
                  /\ types[i] = << props.rdsEvents[i].rdsSnapshotType >>
                  /\ modes[i] \in { << "cluster-snapshot" >>, << "snapshot" >> }
                  /\ \A j \in 1..n :
                        props.rdsEvents[i] = props.rdsEvents[j] => modes[i] = modes[j]

C6_Witness ==
    /\ lambdaFunction # Undefined
    /\ Len(props.rdsEvents) = 2
    /\ props.rdsEvents[1].rdsEventId # props.rdsEvents[2].rdsEventId
    /\ props.rdsEvents[1].rdsSnapshotType # props.rdsEvents[2].rdsSnapshotType
    /\ Len(Split(lambdaFunction.environment.RDS_SNAPSHOT_TYPES)) = 2

(* C7: entry i of DB_SNAPSHOT_TYPES is "cluster-snapshot" when condition i has
   event id RDS-EVENT-0169 and "snapshot" otherwise, whatever its snapshot type
   and whatever the other conditions; the rule set of bin/cdk.ts gives
   snapshot,snapshot,snapshot. *)
C7_ExportModeDerivation ==
    lambdaFunction # Undefined =>
        LET modes == Split(lambdaFunction.environment.DB_SNAPSHOT_TYPES)
        IN  /\ Len(modes) = Len(props.rdsEvents)
            /\ \A i \in 1..Len(props.rdsEvents) :
                  modes[i] = IF props.rdsEvents[i].rdsEventId = "RDS-EVENT-0169"
                             THEN << "cluster-snapshot" >> ELSE << "snapshot" >>
            /\ props.rdsEvents = CdkRdsEvents =>
                  lambdaFunction.environment.DB_SNAPSHOT_TYPES
                      = << "snapshot", ",", "snapshot", ",", "snapshot" >>

C7_Witness ==
    /\ lambdaFunction # Undefined
    /\ Len(props.rdsEvents) = 2
    /\ props.rdsEvents[1].rdsEventId = DB_AUTOMATED_SNAPSHOT_CREATED
    /\ props.rdsEvents[2].rdsEventId = DB_AUTOMATED_AURORA_SNAPSHOT_CREATED
    /\ props.rdsEvents[1].rdsSnapshotType = props.rdsEvents[2].rdsSnapshotType
    /\ lambdaFunction.environment.DB_SNAPSHOT_TYPES = << "snapshot", ",", "cluster-snapshot" >>

(* C8: whatever the inputs, the key policy has a statement allowing the account
   root principal kms:* on every resource with no condition; the statement
   giving the Lambda execution role the grant actions is another statement, it
   carries a condition, and no statement of the policy denies anything. *)
C8_KeyPolicyRootUnconditional ==
    snapshotExportEncryptionKey # Undefined =>
        LET policy == snapshotExportEncryptionKey.policy
        IN  /\ \E i \in 1..Len(policy) :
                  /\ policy[i].Principal = { AccountRootPrincipalArn }
                  /\ policy[i].Action = { "kms:*" }
                  /\ policy[i].Resource = { Star }
                  /\ policy[i].Effect = "Allow"
                  /\ policy[i].Condition = {}
                  /\ \E j \in 1..Len(policy) :
                        /\ j # i
                        /\ policy[j].Principal = { lambdaExecutionRole.roleArn }
                        /\ "kms:CreateGrant" \in policy[j].Action
                        /\ policy[j].Condition # {}
            /\ \A k \in 1..Len(policy) : policy[k].Effect = "Allow"

C8_Witness ==
    /\ snapshotExportEncryptionKey # Undefined
    /\ props.rdsEvents = << >>
    /\ Len(snapshotExportEncryptionKey.policy) = 3

(* Actions of a statement that let the role pass a role *)
PassRoleActions == { "iam:PassRole", "iam:Pass*", "iam:*", "*" }

(* C9: exactly one statement of the Lambda execution role allows iam:PassRole,
   its only resource is the ARN of the export task role, and that is the ARN
   handed to the function as SNAPSHOT_TASK_ROLE. *)
C9_PassRoleOnlyExportTaskRole ==
    /\ lambdaExecutionRole # Undefined =>
          LET doc     == lambdaExecutionRole.inlinePolicies.document
              passing == { i \in 1..Len(doc) :
                              doc[i].Effect = "Allow" /\ doc[i].Action \cap PassRoleActions # {} }
          IN  /\ Cardinality(passing) = 1
              /\ \A i \in passing : doc[i].Resource = { snapshotExportTaskRole.roleArn }
              /\ snapshotExportTaskRole.roleArn # lambdaExecutionRole.roleArn
    /\ lambdaFunction # Undefined =>
          /\ lambdaFunction.role = lambdaExecutionRole.roleArn
          /\ lambdaFunction.environment.SNAPSHOT_TASK_ROLE = snapshotExportTaskRole.roleArn

C9_Witness ==
    /\ lambdaFunction # Undefined
    /\ Len(lambdaExecutionRole.inlinePolicies.document) = 2
    /\ lambdaExecutionRole.inlinePolicies.document[2].Action = { "iam:PassRole" }

(* C10: the catalog database name has the length of dbName, keeps every
   character of [A-Za-z0-9_] and has "_" everywhere else, so it consists of
   characters of [A-Za-z0-9_] only and normalizing it again returns it
   unchanged; db-mysql-main gives db_mysql_main. *)
C10_NormalizeIdempotent ==
    crawler # Undefined =>
        LET name   == props.dbName
            result == crawler.databaseName
        IN  /\ Len(result) = Len(name)
            /\ \A i \in 1..Len(result) : result[i] \in WordChars
            /\ \A i \in 1..Len(name) :
                  result[i] = IF name[i] \in WordChars THEN name[i] ELSE "_"
            /\ Normalize(result) = result
            /\ Normalize(Normalize(name)) = Normalize(name)
            /\ name = CdkDbName =>
                  result = << "d", "b", "_", "m", "y", "s", "q", "l", "_", "m", "a", "i", "n" >>

C10_Witness ==
    /\ crawler # Undefined
    /\ Len(props.dbName) = 3
    /\ props.dbName[1] = "-"
    /\ props.dbName[3] = "."
    /\ crawler.databaseName[1] = "_"
    /\ crawler.databaseName[3] = "_"

----------------------------------------------------------------------------
(* Construct ids each statement of the constructor refers to, as the claim
   lists them: the bucket before the three roles, the export task role before
   the Lambda execution role, both key principals before the key, the topic
   before the subscriptions and the function, and so on. *)
ReferencedBy(id) ==
    IF id = "SnapshotExportTaskRole" THEN { "SnapshotExportBucket" }
    ELSE IF id = "RdsSnapshotExporterLambdaExecutionRole"
         THEN { "SnapshotExportBucket", "SnapshotExportTaskRole" }
    ELSE IF id = "SnapshotExportsGlueCrawlerRole" THEN { "SnapshotExportBucket" }
    ELSE IF id = "SnapshotExportEncryptionKey"
         THEN { "RdsSnapshotExporterLambdaExecutionRole", "SnapshotExportsGlueCrawlerRole" }
    ELSE IF id \in { "RdsSnapshotEventNotification", "RdsBackupCopyEventNotification" }
         THEN { "SnapshotEventTopic" }
    ELSE IF id = "LambdaFunction"
         THEN { "SnapshotExportBucket", "SnapshotExportTaskRole",
                "RdsSnapshotExporterLambdaExecutionRole",
                "SnapshotExportEncryptionKey", "SnapshotEventTopic" }
    ELSE IF id = "SnapshotExportCrawler"
         THEN { "SnapshotExportBucket", "SnapshotExportsGlueCrawlerRole" }
    ELSE {}

(* The construct a reference resolves against *)
OwnersOf(refs) == { r.of : r \in refs }

(* References held by the policy statements of a document *)
RefsOfDocument(doc) ==
    UNION { doc[i].Principal \cup doc[i].Resource : i \in 1..Len(doc) }

(* C11: at every point of the pass the statement about to run, and every
   construct already made, refers only to constructs already made; and the
   identities the constructs carry are those of the constructs named by the
   claim: bucket in the role policies, export task role in the PassRole
   statement, both roles in the key policy, topic in every subscription and in
   the function's event source, bucket, task role and key in the function's
   environment, bucket and crawler role in the crawler. *)
C11_DependenciesPrecede ==
    /\ pc \notin { "done", "error" } => ReferencedBy(pc) \subseteq children
    /\ \A id \in children : ReferencedBy(id) \subseteq children
    /\ snapshotExportTaskRole # Undefined =>
          OwnersOf(RefsOfDocument(snapshotExportTaskRole.inlinePolicies.document))
              = { bucket.id }
    /\ lambdaExecutionRole # Undefined =>
          OwnersOf(RefsOfDocument(lambdaExecutionRole.inlinePolicies.document))
              = { "*", snapshotExportTaskRole.id }
    /\ snapshotExportGlueCrawlerRole # Undefined =>
          OwnersOf(RefsOfDocument(snapshotExportGlueCrawlerRole.inlinePolicies.document))
              = { bucket.id }
    /\ snapshotExportEncryptionKey # Undefined =>
          OwnersOf(RefsOfDocument(snapshotExportEncryptionKey.policy))
              = { "*", "AccountRootPrincipal", lambdaExecutionRole.id,
                  snapshotExportGlueCrawlerRole.id }
    /\ \A i \in 1..Len(subscriptions) :
          /\ snapshotEventTopic # Undefined
          /\ subscriptions[i].snsTopicArn = snapshotEventTopic.topicArn
    /\ lambdaFunction # Undefined =>
          /\ lambdaFunction.environment.SNAPSHOT_BUCKET_NAME = bucket.bucketName
          /\ lambdaFunction.environment.SNAPSHOT_TASK_ROLE = snapshotExportTaskRole.roleArn
          /\ lambdaFunction.environment.SNAPSHOT_TASK_KEY = snapshotExportEncryptionKey.keyArn
          /\ lambdaFunction.role = lambdaExecutionRole.roleArn
          /\ \A i \in 1..Len(lambdaFunction.events) :
                lambdaFunction.events[i].topic = snapshotEventTopic.topicArn
    /\ crawler # Undefined =>
          /\ crawler.role = snapshotExportGlueCrawlerRole.roleArn
          /\ \A i \in 1..Len(crawler.targets) : crawler.targets[i].path = bucket.bucketName

C11_Witness ==
    /\ pc = "done"
    /\ Len(subscriptions) = 2
    /\ crawler # Undefined
    /\ lambdaFunction # Undefined
    /\ Cardinality(children) = 10

(* Subscription that delivers an event id to the topic *)
DeliveringSourceType(eventId) ==
    IF eventId = DB_AUTOMATED_AURORA_SNAPSHOT_CREATED THEN "db-cluster-snapshot"
    ELSE "db-snapshot"

DeliveringCategory(eventId) ==
    IF eventId = DB_AUTOMATED_AURORA_SNAPSHOT_CREATED THEN "backup"
    ELSE IF eventId = DB_BACKUP_SNAPSHOT_FINISHED_COPY THEN "notification"
    ELSE "creation"

(* C12 as stated: once the function is made, every event id of the rule set
   (every entry of RDS_EVENT_IDS) has a subscription on the topic the function
   listens to whose source type and category deliver it, also when
   RDS-EVENT-0169 stands beside a non-cluster creation event. *)
C12_SubscriptionCoverage ==
    lambdaFunction # Undefined =>
        \A i \in 1..Len(props.rdsEvents) :
            \E k \in 1..Len(subscriptions) :
                /\ subscriptions[k].sourceType
                      = DeliveringSourceType(props.rdsEvents[i].rdsEventId)
                /\ subscriptions[k].eventCategories
                      = << DeliveringCategory(props.rdsEvents[i].rdsEventId) >>
                /\ subscriptions[k].enabled
                /\ \E j \in 1..Len(lambdaFunction.events) :
                      lambdaFunction.events[j].topic = subscriptions[k].snsTopicArn

====
